---- MODULE Spec2Model ----
(***************************************************************************)
(* A model of the sygma-relayer sources:                                   *)
(*   - the static coordinator elector (comm/elector),                      *)
(*   - the bridge contract wrapper (chains/evm/calls/contracts/bridge),    *)
(*   - the message executor and the destination bridge it talks to,        *)
(*   - the application entry point Run (app).                              *)
(* Each subsystem has its own specification over the shared variables.     *)
(***************************************************************************)
EXTENDS Integers, Sequences, FiniteSets, TLC

VARIABLES
    electors,       \* node -> the elector it holds and its last Coordinator call
    hashed,         \* slot -> the last ProposalHash call made in that slot
    lastCall,       \* the last contract call or transaction the wrapper issued
    lastResult,     \* what the wrapper operation returned to its caller
    lastOp,         \* the wrapper operation last invoked, its inputs and the chain's outcome
    usedNonces,     \* destination bridge: the (origin domain, nonce) pairs executed
    succeeded,      \* proposal -> how many of its executeProposal submissions succeeded
    executor,       \* the message executor: its position and the proposal in hand
    run             \* the state of app.Run

vars == <<electors, hashed, lastCall, lastResult, lastOp, usedNonces, succeeded, executor, run>>

\* Record constructors below list their fields in the order TLC keeps them (the
\* order in which the names first appear in this module), so that a record
\* shared between TLC's workers is never re-sorted in place.

\* Go's nil (no error, no value).
Nil == "nil"

Range(s) == {s[i] : i \in 1..Len(s)}

RECURSIVE SeqsUpTo(_, _)
\* All sequences over S of length 0..n.
SeqsUpTo(S, n) ==
    IF n = 0 THEN {<<>>}
    ELSE LET shorter == SeqsUpTo(S, n - 1)
         IN  shorter \cup {Append(s, x) : s \in {t \in shorter : Len(t) = n - 1}, x \in S}

(***************************************************************************)
(* Keccak256 (go-ethereum crypto).  The claims treat it as collision-free; *)
(* the model keeps that one property and nothing else: each digest byte    *)
(* mixes a byte with the one after it (the last with a fixed pad).  Read   *)
(* from the right the bytes can be recovered one by one (101 is odd, hence *)
(* invertible modulo 256), so no two strings share a digest.               *)
(***************************************************************************)
Keccak256(bs) ==
    [i \in 1..Len(bs) |->
        (101 * bs[i] + 7 * (IF i < Len(bs) THEN bs[i + 1] ELSE 99) + 13) % 256]

RECURSIVE LexLess(_, _)
\* Byte-lexicographic order on strings of one length.
LexLess(a, b) ==
    IF a = <<>> \/ b = <<>> THEN FALSE
    ELSE IF Head(a) # Head(b) THEN Head(a) < Head(b)
    ELSE LexLess(Tail(a), Tail(b))

\* hash.Big().Cmp(...) < 0 on two digests: shorter digests first, then bytewise.
DigestLess(a, b) ==
    \/ Len(a) < Len(b)
    \/ Len(a) = Len(b) /\ LexLess(a, b)

(***************************************************************************)
(* The static coordinator elector.                                         *)
(***************************************************************************)
\* Bound on the length of the peer slice handed to Coordinator.
MaxPeers == 3

Nodes == {"n1", "n2"}
\* peer.ID values (byte strings) and session ids.
PeerIDs == {<<1>>, <<2>>, <<3>>}
SessionIDs == {<<10>>, <<30, 12>>}
PeerSlices == SeqsUpTo(PeerIDs, MaxPeers)

\* H(peer_id || session_id): the sort key of a peer in a session.
PeerKey(id, sessionID) == Keccak256(id \o sessionID)

\* SortablePeerSlice.Less on two PeerMsg values.
PeerLess(a, b) == DigestLess(PeerKey(a.ID, a.SessionID), PeerKey(b.ID, b.SessionID))

RECURSIVE InsertPeer(_, _)
\* One pass of the insertion sort: x moves left while it is less than its neighbour.
InsertPeer(sorted, x) ==
    IF sorted = <<>> THEN <<x>>
    ELSE LET last == sorted[Len(sorted)]
         IN  IF PeerLess(x, last)
             THEN Append(InsertPeer(SubSeq(sorted, 1, Len(sorted) - 1), x), last)
             ELSE Append(sorted, x)

RECURSIVE SortFrom(_, _)
SortFrom(sorted, rest) ==
    IF rest = <<>> THEN sorted
    ELSE SortFrom(InsertPeer(sorted, Head(rest)), Tail(rest))

\* common.SortPeersForSession: the peers as PeerMsg values, sorted by PeerLess.
SortPeersForSession(peers, sessionID) ==
    SortFrom(<<>>, [i \in 1..Len(peers) |-> [ID |-> peers[i], SessionID |-> sessionID]])

\* NewCoordinatorElector(sessionID)
NewElector(sessionID) == [sessionID |-> sessionID, peers |-> <<>>, called |-> FALSE, out |-> Nil]

\* Mutant: the first peer as listed, no sorting.
CoordinatorUnsorted(peers, sessionID) ==
    IF Len(peers) = 0 THEN [id |-> <<>>, err |-> Nil]
    ELSE [id |-> peers[1], err |-> Nil]

\* Mutant: the last of the sorted peers.
CoordinatorLast(peers, sessionID) ==
    LET sortedPeers == SortPeersForSession(peers, sessionID)
    IN  IF Len(sortedPeers) = 0 THEN [id |-> <<>>, err |-> Nil]
        ELSE [id |-> sortedPeers[Len(sortedPeers)].ID, err |-> Nil]

\* staticCoordinatorElector.Coordinator: (peer.ID, error)
Coordinator(peers, sessionID) ==
    LET sortedPeers == SortPeersForSession(peers, sessionID)
    IN  IF Len(sortedPeers) = 0 THEN [id |-> <<>>, err |-> Nil]
        ELSE [id |-> SortPeersForSession(peers, sessionID)[1].ID, err |-> Nil]

NoElector == [sessionID |-> <<>>, peers |-> <<>>, called |-> FALSE, out |-> Nil]

ElectorInit == electors = [n \in Nodes |-> NoElector]

\* A node builds its elector for a session.
NewCoordinatorElector(n, sessionID) ==
    /\ electors[n] = NoElector
    /\ electors' = [electors EXCEPT ![n] = NewElector(sessionID)]
    /\ UNCHANGED <<hashed, lastCall, lastResult, lastOp, usedNonces, succeeded, executor, run>>

\* A node asks its elector for the coordinator among peers.
CallCoordinator(n, peers) ==
    /\ electors[n].sessionID # <<>>
    /\ ~electors[n].called
    /\ electors' = [electors EXCEPT ![n] =
                        [@ EXCEPT !.called = TRUE,
                                  !.peers = peers,
                                  !.out = Coordinator(peers, electors[n].sessionID)]]
    /\ UNCHANGED <<hashed, lastCall, lastResult, lastOp, usedNonces, succeeded, executor, run>>

\* The session is over: the node lets go of its elector.
DropElector(n) ==
    /\ electors[n].called
    /\ electors' = [electors EXCEPT ![n] = NoElector]
    /\ UNCHANGED <<hashed, lastCall, lastResult, lastOp, usedNonces, succeeded, executor, run>>

ElectorNext ==
    \/ \E n \in Nodes, s \in SessionIDs : NewCoordinatorElector(n, s)
    \/ \E n \in Nodes, peers \in PeerSlices : CallCoordinator(n, peers)
    \/ \E n \in Nodes : DropElector(n)

(***************************************************************************)
(* Proposals and their canonical hash.                                     *)
(* A uint64 is kept as four 16-bit limbs, most significant first, so that  *)
(* the whole range 0 .. 2^64-1 is there without leaving the integers the   *)
(* checker computes with.                                                  *)
(***************************************************************************)
\* Bound on the length of a proposal's data.
MaxDataLen == 1

U64Zero == <<0, 0, 0, 0>>
\* 42, 256, 2^63 and 2^64-1.
U64FortyTwo == <<0, 0, 0, 42>>
U64TwoFiftySix == <<0, 0, 0, 256>>
U64TopBit == <<32768, 0, 0, 0>>
U64Max == <<65535, 65535, 65535, 65535>>

\* types.ResourceID is [32]byte.
ResourceIDs == {[i \in 1..32 |-> IF i = 32 THEN 1 ELSE 0],
                [i \in 1..32 |-> IF i = 1 THEN 42 ELSE 0]}
HandlerAddresses == {"erc20Handler", "genericHandler"}
DataBytes == {0, 42}

\* proposal.Proposal
ProposalsOver(sources, dests, nonces) ==
    [Source : sources, Destination : dests, DepositNonce : nonces,
     Data : SeqsUpTo(DataBytes, MaxDataLen), ResourceId : ResourceIDs,
     HandlerAddress : HandlerAddresses]

HashProposals == ProposalsOver({1}, {1, 2}, {U64FortyTwo, U64TwoFiftySix})

\* binary.BigEndian.PutUint64 into a fresh 8-byte slice.
PutUint64(v) ==
    [i \in 1..8 |-> IF i % 2 = 1 THEN v[(i + 1) \div 2] \div 256
                                  ELSE v[i \div 2] % 256]

RECURSIVE Join(_)
\* bytes.Join(parts, nil)
Join(parts) == IF parts = <<>> THEN <<>> ELSE Head(parts) \o Join(Tail(parts))

\* Mutant: the nonce written least significant byte first.
ProposalHashLittleEndian(proposal) ==
    LET be == PutUint64(proposal.DepositNonce)
        nonceBytes == [i \in 1..8 |-> be[9 - i]]
        proposalBytes == Join(<<
            <<proposal.Source>>,
            <<proposal.Destination>>,
            nonceBytes,
            proposal.Data,
            proposal.ResourceId >>)
    IN  [err |-> Nil, hash |-> Keccak256(proposalBytes)]

\* Mutant: the destination domain left out of the hashed bytes.
ProposalHashNoDestination(proposal) ==
    LET nonceBytes == PutUint64(proposal.DepositNonce)
        proposalBytes == Join(<<
            <<proposal.Source>>,
            nonceBytes,
            proposal.Data,
            proposal.ResourceId >>)
    IN  [err |-> Nil, hash |-> Keccak256(proposalBytes)]

\* Mutant: the handler address hashed along with the other fields.
ProposalHashWithHandler(proposal) ==
    LET nonceBytes == PutUint64(proposal.DepositNonce)
        proposalBytes == Join(<<
            <<proposal.Source>>,
            <<proposal.Destination>>,
            nonceBytes,
            proposal.Data,
            proposal.ResourceId,
            <<IF proposal.HandlerAddress = "erc20Handler" THEN 20 ELSE 21>> >>)
    IN  [err |-> Nil, hash |-> Keccak256(proposalBytes)]

\* BridgeContract.ProposalHash: ([]byte, error)
ProposalHash(proposal) ==
    LET nonceBytes == PutUint64(proposal.DepositNonce)
        proposalBytes == Join(<<
            <<proposal.Source>>,
            <<proposal.Destination>>,
            nonceBytes,
            proposal.Data,
            proposal.ResourceId >>)
    IN  [err |-> Nil, hash |-> Keccak256(proposalBytes)]

Slots == {"p", "q"}
NoHash == [called |-> FALSE]

HashInit == hashed = [s \in Slots |-> NoHash]

\* ProposalHash is called on a proposal; the slot keeps the call and its result.
CallProposalHash(s, proposal) ==
    /\ ~hashed[s].called
    /\ hashed' = [hashed EXCEPT ![s] =
                    [called |-> TRUE, out |-> ProposalHash(proposal), proposal |-> proposal]]
    /\ UNCHANGED <<electors, lastCall, lastResult, lastOp, usedNonces, succeeded, executor, run>>

\* Both recorded calls are dropped.
ForgetHashes ==
    /\ \A s \in Slots : hashed[s].called
    /\ hashed' = [s \in Slots |-> NoHash]
    /\ UNCHANGED <<electors, lastCall, lastResult, lastOp, usedNonces, succeeded, executor, run>>

HashNext ==
    \/ \E s \in Slots, proposal \in HashProposals : CallProposalHash(s, proposal)
    \/ ForgetHashes

(***************************************************************************)
(* The bridge contract wrapper.  Every operation builds one contract call  *)
(* or transaction (method name, arguments) and hands it to the embedded    *)
(* contracts.Contract.                                                     *)
(***************************************************************************)
\* transactor.TransactOptions, as far as this file reads it.
Opts == [Priority : {0, 1, 2}]

\* contracts.Contract.ExecuteTransaction(method, opts, args...)
ExecuteTransaction(method, opts, args) ==
    [method |-> method, opts |-> opts, args |-> args, kind |-> "transaction"]

\* contracts.Contract.CallContract(method, args...)
CallContract(method, args) ==
    [method |-> method, opts |-> Nil, args |-> args, kind |-> "call"]

AdminSetGenericResource(handler, rID, addr, depositFunctionSig, depositerOffset, executeFunctionSig, opts) ==
    ExecuteTransaction("adminSetGenericResource", opts,
        <<handler, rID, addr, depositFunctionSig, depositerOffset, executeFunctionSig>>)

AdminSetResource(handlerAddr, rID, targetContractAddr, opts) ==
    ExecuteTransaction("adminSetResource", opts, <<handlerAddr, rID, targetContractAddr>>)

SetDepositNonce(domainId, depositNonce, opts) ==
    ExecuteTransaction("adminSetDepositNonce", opts, <<domainId, depositNonce>>)

SetBurnableInput(handlerAddr, tokenContractAddr, opts) ==
    ExecuteTransaction("adminSetBurnable", opts, <<handlerAddr, tokenContractAddr>>)

\* BridgeContract.deposit (unexported)
Deposit(resourceID, destDomainID, data, feeData, opts) ==
    ExecuteTransaction("deposit", opts, <<destDomainID, resourceID, data, feeData>>)

\* deposit.ConstructErc20DepositData and its WithPriority variant.
ConstructErc20DepositData(recipient, amount) ==
    [recipient |-> recipient, amount |-> amount, encoding |-> "erc20"]
ConstructErc20DepositDataWithPriority(recipient, amount, priority) ==
    [recipient |-> recipient, amount |-> amount, encoding |-> "erc20-with-priority",
     priority |-> priority]

\* deposit.ConstructErc721DepositData and its WithPriority variant.
ConstructErc721DepositData(recipient, tokenId, metadata) ==
    [recipient |-> recipient, encoding |-> "erc721", tokenId |-> tokenId,
     metadata |-> metadata]
ConstructErc721DepositDataWithPriority(recipient, tokenId, metadata, priority) ==
    [recipient |-> recipient, encoding |-> "erc721-with-priority", priority |-> priority,
     tokenId |-> tokenId, metadata |-> metadata]

\* deposit.ConstructGenericDepositData
ConstructGenericDepositData(metadata) == [encoding |-> "generic", metadata |-> metadata]

\* Mutant: the priority is never encoded.
Erc20DepositAlwaysPlain(recipient, amount, resourceID, destDomainID, feeData, opts) ==
    Deposit(resourceID, destDomainID, ConstructErc20DepositData(recipient, amount), feeData, opts)

Erc20Deposit(recipient, amount, resourceID, destDomainID, feeData, opts) ==
    LET data == IF opts.Priority = 0
                THEN ConstructErc20DepositData(recipient, amount)
                ELSE ConstructErc20DepositDataWithPriority(recipient, amount, opts.Priority)
    IN  Deposit(resourceID, destDomainID, data, feeData, opts)

Erc721Deposit(tokenId, metadata, recipient, resourceID, destDomainID, feeData, opts) ==
    LET data == IF opts.Priority = 0
                THEN ConstructErc721DepositData(recipient, tokenId, metadata)
                ELSE ConstructErc721DepositDataWithPriority(recipient, tokenId, metadata,
                                                            opts.Priority)
    IN  Deposit(resourceID, destDomainID, data, feeData, opts)

GenericDeposit(metadata, resourceID, destDomainID, feeData, opts) ==
    Deposit(resourceID, destDomainID, ConstructGenericDepositData(metadata), feeData, opts)

\* What a deposit operation returns, given what the transaction returned.
DepositReturn(tx) == IF tx.err # Nil THEN [err |-> tx.err, value |-> Nil] ELSE tx

\* BridgeContract.ExecuteProposal: the transaction it submits.
ExecuteProposal(proposal, signature, revertOnFail, opts) ==
    ExecuteTransaction("executeProposal", opts,
        <<proposal.Source, proposal.DepositNonce, proposal.Data, proposal.ResourceId,
          signature>>)

\* Mutant: the pause transaction names a method the bridge does not have.
PauseMisnamed(opts) == ExecuteTransaction("adminPauseTransfer", opts, <<>>)

Pause(opts) == ExecuteTransaction("adminPauseTransfers", opts, <<>>)

Unpause(opts) == ExecuteTransaction("adminUnpauseTransfers", opts, <<>>)

EndKeygen(mpcAddress, opts) == ExecuteTransaction("endKeygen", opts, <<mpcAddress>>)

\* common.LeftPadBytes(b, 32) on an address or amount kept as a name.
LeftPadBytes32(b) == [padded |-> b]

Withdraw(handlerAddress, tokenAddress, recipientAddress, amountOrTokenId, opts) ==
    LET data == <<LeftPadBytes32(tokenAddress), LeftPadBytes32(recipientAddress),
                  LeftPadBytes32(amountOrTokenId)>>
    IN  ExecuteTransaction("adminWithdraw", opts, <<handlerAddress, data>>)

RECURSIVE AddOne(_)
\* limbs + 1 modulo 2^(16 * Len(limbs)).
AddOne(limbs) ==
    IF limbs = <<>> THEN <<>>
    ELSE LET n == Len(limbs)
         IN  IF limbs[n] < 65535
             THEN [limbs EXCEPT ![n] = @ + 1]
             ELSE Append(AddOne(SubSeq(limbs, 1, n - 1)), 0)

\* int64(v) for a uint64 v, as sign and magnitude: a value with the top bit set
\* comes out negative, with magnitude 2^64 - v.
Int64(v) ==
    IF v[1] < 32768 THEN [neg |-> FALSE, abs |-> v]
    ELSE [neg |-> TRUE, abs |-> AddOne([i \in 1..4 |-> 65535 - v[i]])]

\* big.NewInt(x)
BigNewInt(x) == [neg |-> x.neg, abs |-> x.abs]

\* BridgeContract.IsProposalExecuted: the call it makes.
IsProposalExecuted(p) ==
    CallContract("isProposalExecuted", <<p.Source, BigNewInt(Int64(p.DepositNonce))>>)

\* BridgeContract.IsProposalExecuted: what it returns for the call's (res, err).
IsProposalExecutedReturn(res, err) ==
    IF err # Nil THEN [err |-> err, value |-> FALSE]
    ELSE [err |-> Nil, value |-> res[1]]

GetHandlerAddressForResourceID(resourceID) ==
    CallContract("_resourceIDToHandlerAddress", <<resourceID>>)

AdminChangeFeeHandler(feeHandlerAddr, opts) ==
    ExecuteTransaction("adminChangeFeeHandler", opts, <<feeHandlerAddr>>)

(***************************************************************************)
(* The destination bridge, as the wrapper and the executor see it.         *)
(***************************************************************************)
\* Proposals that reach the executor and the wrapper's proposal operations.
ExecProposals ==
    [Source : {1}, Destination : {2}, DepositNonce : {U64FortyTwo, U64TopBit},
     Data : SeqsUpTo(DataBytes, MaxDataLen),
     ResourceId : {[i \in 1..32 |-> IF i = 32 THEN 1 ELSE 0]},
     HandlerAddress : {"erc20Handler"}]

\* The proposals the wrapper's proposal operations are called with directly.
BridgeProposals == {p \in ExecProposals : p.Data = <<>>}

\* The options of an operation whose encoding does not read them.
DefaultOpts == {[Priority |-> 0]}

\* The signature a signing session produces over a proposal hash.
Sign(hash) == [signatureOver |-> hash]

\* A transaction either executes, reverts on the chain, or is never sent.
TxOutcomes == {"success", "revert", "unsent"}

\* Mutant: the bridge executes a proposal whatever its nonce's state.
ExecuteOutcomesUnchecked(used, originDomainID, depositNonce) == TxOutcomes

\* The bridge's executeProposal: a proposal whose (origin, nonce) is already
\* executed reverts; any other may execute or revert.
ExecuteOutcomes(used, originDomainID, depositNonce) ==
    IF <<originDomainID, depositNonce>> \in used THEN {"revert", "unsent"} ELSE TxOutcomes

\* The bridge's isProposalExecuted(domainID, uint256 nonce) for the *big.Int the
\* wrapper passes: a negative one is packed as its two's complement, far above
\* every uint64 nonce, and so names a nonce no proposal has used.
IsExecutedAnswer(used, domainID, nonce) ==
    IF nonce.neg THEN FALSE ELSE <<domainID, nonce.abs>> \in used

\* What ExecuteTransaction hands back: a reverted transaction may still have
\* been sent and mined (a hash, no error) or be refused when sent (an error).
TxReturns(outcome) ==
    CASE outcome = "success" -> {[err |-> Nil, value |-> "txHash"]}
      [] outcome = "revert"  -> {[err |-> Nil, value |-> "txHash"],
                                 [err |-> "execution reverted", value |-> Nil]}
      [] outcome = "unsent"  -> {[err |-> "send failed", value |-> Nil]}

NoCall == [method |-> Nil, opts |-> Nil, args |-> <<>>, kind |-> Nil]
NoResult == [err |-> Nil, value |-> Nil]
NoOp == [proposal |-> Nil, revertOnFail |-> FALSE, outcome |-> Nil, name |-> Nil,
         input |-> Nil]

BridgeInit ==
    /\ lastCall = NoCall
    /\ lastResult = NoResult
    /\ lastOp = NoOp
    /\ usedNonces = {}
    /\ succeeded = [p \in ExecProposals |-> 0]

\* An operation that submits one transaction and returns what it returned.
Transact(name, call) ==
    \E outcome \in TxOutcomes : \E r \in TxReturns(outcome) :
        /\ lastCall' = call
        /\ lastResult' = r
        /\ lastOp' = [NoOp EXCEPT !.name = name, !.outcome = outcome]
        /\ UNCHANGED <<electors, hashed, usedNonces, succeeded, executor, run>>

\* A deposit operation: one deposit transaction; an error drops the hash.
TransactDeposit(name, input, call) ==
    \E outcome \in TxOutcomes : \E r \in TxReturns(outcome) :
        /\ lastCall' = call
        /\ lastResult' = DepositReturn(r)
        /\ lastOp' = [NoOp EXCEPT !.name = name, !.outcome = outcome, !.input = input]
        /\ UNCHANGED <<electors, hashed, usedNonces, succeeded, executor, run>>

\* ExecuteProposal against the bridge: the transaction, the bridge's verdict on
\* the arguments it was given, and what the wrapper returns.
SubmitExecuteProposal(proposal, revertOnFail, opts) ==
    LET call == ExecuteProposal(proposal, Sign(ProposalHash(proposal).hash), revertOnFail, opts)
    IN  \E outcome \in ExecuteOutcomes(usedNonces, call.args[1], call.args[2]) :
        \E r \in TxReturns(outcome) :
            /\ lastCall' = call
            /\ lastResult' = r
            /\ lastOp' = [proposal |-> proposal, revertOnFail |-> revertOnFail,
                          outcome |-> outcome, name |-> "ExecuteProposal",
                          input |-> Nil]
            /\ usedNonces' = IF outcome = "success"
                             THEN usedNonces \cup {<<call.args[1], call.args[2]>>}
                             ELSE usedNonces
            /\ succeeded' = IF outcome = "success"
                            THEN [succeeded EXCEPT ![proposal] = @ + 1]
                            ELSE succeeded

\* IsProposalExecuted against the bridge: the call and what the wrapper returns;
\* the call itself may fail.
QueryResults(proposal) ==
    LET call == IsProposalExecuted(proposal)
    IN  {IsProposalExecutedReturn(<<IsExecutedAnswer(usedNonces, call.args[1], call.args[2])>>, Nil),
         IsProposalExecutedReturn(<<>>, "call failed")}

OpAdminSetGenericResource ==
    \E opts \in DefaultOpts : Transact("AdminSetGenericResource",
        AdminSetGenericResource("genericHandler", "rID", "target", "depositSig", 0, "executeSig", opts))

OpAdminSetResource ==
    \E opts \in DefaultOpts : Transact("AdminSetResource",
        AdminSetResource("erc20Handler", "rID", "token", opts))

OpSetDepositNonce ==
    \E opts \in DefaultOpts, nonce \in {U64Zero, U64Max} :
        Transact("SetDepositNonce", SetDepositNonce(1, nonce, opts))

OpSetBurnableInput ==
    \E opts \in DefaultOpts : Transact("SetBurnableInput", SetBurnableInput("erc20Handler", "token", opts))

\* The arguments the deposit operations are called with.
DepositInputs ==
    [opts : Opts, resourceID : {"rID"}, destDomainID : {2, 3}, feeData : {<<>>, <<9>>},
     recipient : {"recipient"}, amount : {1000000}, tokenId : {7}, metadata : {"metadata"}]

OpErc20Deposit ==
    \E in \in DepositInputs : TransactDeposit("Erc20Deposit", in,
        Erc20Deposit(in.recipient, in.amount, in.resourceID, in.destDomainID, in.feeData,
                     in.opts))

OpErc721Deposit ==
    \E in \in DepositInputs : TransactDeposit("Erc721Deposit", in,
        Erc721Deposit(in.tokenId, in.metadata, in.recipient, in.resourceID, in.destDomainID,
                      in.feeData, in.opts))

OpGenericDeposit ==
    \E in \in DepositInputs : TransactDeposit("GenericDeposit", in,
        GenericDeposit(in.metadata, in.resourceID, in.destDomainID, in.feeData, in.opts))

OpPause == \E opts \in DefaultOpts : Transact("Pause", Pause(opts))

OpUnpause == \E opts \in DefaultOpts : Transact("Unpause", Unpause(opts))

OpEndKeygen == \E opts \in DefaultOpts : Transact("EndKeygen", EndKeygen("mpcAddress", opts))

OpWithdraw ==
    \E opts \in DefaultOpts : Transact("Withdraw",
        Withdraw("erc20Handler", "token", "recipient", 5, opts))

OpAdminChangeFeeHandler ==
    \E opts \in DefaultOpts : Transact("AdminChangeFeeHandler", AdminChangeFeeHandler("feeHandler", opts))

\* GetHandlerAddressForResourceID: one call; an error gives the zero address.
OpGetHandlerAddressForResourceID ==
    /\ lastCall' = GetHandlerAddressForResourceID("rID")
    /\ \E r \in {[err |-> Nil, value |-> "erc20Handler"],
                 [err |-> "call failed", value |-> "0x0"]} : lastResult' = r
    /\ lastOp' = [NoOp EXCEPT !.name = "GetHandlerAddressForResourceID"]
    /\ UNCHANGED <<electors, hashed, usedNonces, succeeded, executor, run>>

OpExecuteProposal ==
    \E proposal \in BridgeProposals, revertOnFail \in BOOLEAN, opts \in DefaultOpts :
        /\ SubmitExecuteProposal(proposal, revertOnFail, opts)
        /\ UNCHANGED <<electors, hashed, executor, run>>

OpIsProposalExecuted ==
    \E proposal \in BridgeProposals : \E r \in QueryResults(proposal) :
        /\ lastCall' = IsProposalExecuted(proposal)
        /\ lastResult' = r
        /\ lastOp' = [NoOp EXCEPT !.name = "IsProposalExecuted", !.proposal = proposal]
        /\ UNCHANGED <<electors, hashed, usedNonces, succeeded, executor, run>>

BridgeNext ==
    \/ OpAdminSetGenericResource
    \/ OpAdminSetResource
    \/ OpSetDepositNonce
    \/ OpSetBurnableInput
    \/ OpErc20Deposit
    \/ OpErc721Deposit
    \/ OpGenericDeposit
    \/ OpExecuteProposal
    \/ OpPause
    \/ OpUnpause
    \/ OpEndKeygen
    \/ OpWithdraw
    \/ OpIsProposalExecuted
    \/ OpGetHandlerAddressForResourceID
    \/ OpAdminChangeFeeHandler

(***************************************************************************)
(* The message executor: for an agreed proposal it asks the bridge whether *)
(* the proposal is executed and drops it if so; otherwise the signing      *)
(* session runs and the proposal is submitted.                             *)
(***************************************************************************)
Idle == [proposal |-> Nil, pc |-> "idle", executedAtQuery |-> FALSE, handled |-> Nil]

ExecutorInit == executor = Idle

\* A deposit event is delivered (or delivered again): the executor's query.
Deliver(proposal) ==
    /\ executor.pc = "idle"
    /\ \E r \in QueryResults(proposal) :
        /\ lastCall' = IsProposalExecuted(proposal)
        /\ lastResult' = r
        /\ lastOp' = [NoOp EXCEPT !.name = "IsProposalExecuted", !.proposal = proposal]
        /\ executor' =
            [proposal |-> proposal,
             pc |-> IF r.err = Nil /\ ~r.value THEN "signed" ELSE "idle",
             executedAtQuery |-> <<proposal.Source, proposal.DepositNonce>> \in usedNonces,
             handled |-> IF r.err # Nil THEN "failed"
                         ELSE IF r.value THEN "dropped" ELSE "signing"]
    /\ UNCHANGED <<electors, hashed, usedNonces, succeeded, run>>

\* The signing session has produced the signature: the executor submits.
Submit ==
    /\ executor.pc = "signed"
    /\ \E revertOnFail \in BOOLEAN, opts \in DefaultOpts :
        SubmitExecuteProposal(executor.proposal, revertOnFail, opts)
    /\ executor' = [executor EXCEPT !.pc = "idle", !.handled = "submitted"]
    /\ UNCHANGED <<electors, hashed, run>>

\* Another relayer of the committee gets the proposal executed.
PeerExecutes(proposal) ==
    /\ <<proposal.Source, proposal.DepositNonce>> \notin usedNonces
    /\ usedNonces' = usedNonces \cup {<<proposal.Source, proposal.DepositNonce>>}
    /\ UNCHANGED <<electors, hashed, lastCall, lastResult, lastOp, succeeded, executor, run>>

ExecutorNext ==
    \/ \E proposal \in ExecProposals : Deliver(proposal)
    \/ Submit
    \/ \E proposal \in ExecProposals : PeerExecutes(proposal)

(***************************************************************************)
(* app.Run: start-up (any failure panics), then the select on the          *)
(* relayer's error channel and the signal channel.  Signals are modelled   *)
(* from signal.Notify on: before it the runtime's default disposition ends *)
(* the process and Run has no say.                                         *)
(***************************************************************************)
\* Bounds on the configured chains and on the peers of the topology.
MaxChains == 2
MaxTopology == 2

ChainTypes == {"evm", "other"}
Signals == {"SIGTERM", "SIGINT", "SIGHUP", "SIGQUIT"}
RelayerErrors == {"chain poll failed", "execution failed"}
\* networkTopology.Peers: at least one peer, none listed twice.
Topologies ==
    {t \in SeqsUpTo(PeerIDs, MaxTopology) : Len(t) >= 1 /\ Cardinality(Range(t)) = Len(t)}

\* p2p communication before NewCommunication, and its record of the last message.
NoCommunication == [started |-> FALSE, allowedPeers |-> <<>>]
NoMessage == [seen |-> FALSE, from |-> <<>>, delivered |-> FALSE]

\* p2p.NewCommunication keeps the allowed peers it is given.
NewCommunication(allowedPeers) == [started |-> TRUE, allowedPeers |-> allowedPeers]

RunStart ==
    [pc |-> "config", allowedPeers |-> <<>>, chainConfigs |-> <<>>, chains |-> 0,
     networkTopology |-> <<>>, relayer |-> "none", errChn |-> Nil, sysErr |-> Nil,
     ctx |-> "none", result |-> Nil, via |-> Nil, reported |-> Nil,
     current |-> <<>>, comm |-> NoCommunication, received |-> NoMessage]

RunInit == run = RunStart

Panic(r) == [r EXCEPT !.pc = "panicked"]

\* The cases of the select that can proceed.
SelectReady(r) ==
    (IF r.errChn # Nil THEN {"errChn"} ELSE {}) \cup (IF r.sysErr # Nil THEN {"sysErr"} ELSE {})

\* Mutant: a signal makes Run return an error.
SelectReturnSignalFails(case, r) ==
    IF case = "errChn" THEN r.errChn ELSE "terminated by signal"

\* What the chosen case returns: the relayer's error, or nil on a signal.
SelectReturn(case, r) ==
    IF case = "errChn" THEN r.errChn ELSE Nil

\* Run returns: the deferred cancel() runs.
Return(r, case) ==
    [r EXCEPT !.pc = "returned", !.result = SelectReturn(case, r), !.via = case,
              !.ctx = "cancelled",
              !.errChn = IF case = "errChn" THEN Nil ELSE @,
              !.sysErr = IF case = "sysErr" THEN Nil ELSE @]

RunUnchanged ==
    UNCHANGED <<electors, hashed, lastCall, lastResult, lastOp, usedNonces, succeeded, executor>>

\* config.GetConfig
RunGetConfig ==
    /\ run.pc = "config"
    /\ \/ run' = Panic(run)
       \/ \E cfgs \in SeqsUpTo(ChainTypes, MaxChains) :
            run' = [run EXCEPT !.pc = "topology", !.chainConfigs = cfgs]
    /\ RunUnchanged

\* topology.NewNetworkTopologyProvider, NetworkTopology, and the allowed peers.
RunTopology ==
    /\ run.pc = "topology"
    /\ \/ run' = Panic(run)
       \/ \E t \in Topologies :
            run' = [run EXCEPT !.pc = "host", !.networkTopology = t, !.current = t,
                               !.allowedPeers = [i \in 1..Len(t) |-> t[i]]]
    /\ RunUnchanged

\* The block store, the private key, the p2p host, communication, coordinator.
RunHost ==
    /\ run.pc = "host"
    /\ \/ run' = Panic(run)
       \/ run' = [run EXCEPT !.pc = "chains", !.comm = NewCommunication(run.allowedPeers)]
    /\ RunUnchanged

\* One pass of the loop over the chain configurations.
RunChain ==
    /\ run.pc = "chains"
    /\ run.chains < Len(run.chainConfigs)
    /\ \/ /\ run.chainConfigs[run.chains + 1] # "evm"
          /\ run' = Panic(run)
       \/ /\ run.chainConfigs[run.chains + 1] = "evm"
          /\ \/ run' = Panic(run)
             \/ run' = [run EXCEPT !.chains = @ + 1]
    /\ RunUnchanged

\* NewRelayer, the root context, go r.Start, signal.Notify.
RunRelayer ==
    /\ run.pc = "chains"
    /\ run.chains = Len(run.chainConfigs)
    /\ run' = [run EXCEPT !.pc = "select", !.relayer = "running", !.ctx = "live"]
    /\ RunUnchanged

\* The relayer reports a fatal error: its send on errChn waits for the select.
RelayerFails(e) ==
    /\ run.pc = "select"
    /\ run.relayer = "running"
    /\ run' = [run EXCEPT !.relayer = "failing", !.errChn = e, !.reported = e]
    /\ RunUnchanged

\* A signal is delivered into the one-slot signal channel.
SignalArrives(sig) ==
    /\ run.pc = "select"
    /\ run.sysErr = Nil
    /\ run' = [run EXCEPT !.sysErr = sig]
    /\ RunUnchanged

\* The select takes one of the cases that can proceed, and Run returns.
RunSelect ==
    /\ run.pc = "select"
    /\ \E case \in SelectReady(run) : run' = Return(run, case)
    /\ RunUnchanged

\* The relayer sees its context cancelled and stops.
RelayerStops ==
    /\ run.ctx = "cancelled"
    /\ run.relayer \in {"running", "failing"}
    /\ run' = [run EXCEPT !.relayer = "stopped"]
    /\ RunUnchanged

\* A Refresh event: the topology provider now answers with a new committee.
\* Nothing in Run, and no operation of the communication, replaces the
\* allowed peers given to NewCommunication.
RefreshEvent(t) ==
    /\ run.pc = "select"
    /\ run.relayer = "running"
    /\ t # run.current
    /\ run' = [run EXCEPT !.current = t]
    /\ RunUnchanged

\* Admission of an incoming message: delivered when its sender is allowed.
ProcessMessage(from) ==
    /\ run.comm.started
    /\ run.pc \in {"chains", "select"}
    /\ run' = [run EXCEPT !.received =
                   [seen |-> TRUE, from |-> from,
                    delivered |-> from \in Range(run.comm.allowedPeers)]]
    /\ RunUnchanged

\* Start-up, refreshes of the committee and incoming messages.
CommNext ==
    \/ RunGetConfig
    \/ RunTopology
    \/ RunHost
    \/ RunChain
    \/ RunRelayer
    \/ \E t \in Topologies : RefreshEvent(t)
    \/ \E from \in PeerIDs : ProcessMessage(from)

RunNext ==
    \/ RunGetConfig
    \/ RunTopology
    \/ RunHost
    \/ RunChain
    \/ RunRelayer
    \/ \E e \in RelayerErrors : RelayerFails(e)
    \/ \E sig \in Signals : SignalArrives(sig)
    \/ RunSelect
    \/ RelayerStops

(***************************************************************************)
(* Specifications, one per subsystem.                                      *)
(***************************************************************************)
Init == ElectorInit /\ HashInit /\ BridgeInit /\ ExecutorInit /\ RunInit

SpecElector == Init /\ [][ElectorNext]_vars
SpecHash == Init /\ [][HashNext]_vars
SpecBridge == Init /\ [][BridgeNext]_vars
SpecExecutor == Init /\ [][ExecutorNext]_vars
\* The Go scheduler runs a goroutine whose select can proceed.
SpecRun == Init /\ [][RunNext]_vars /\ WF_vars(RunSelect)

SpecComm == Init /\ [][CommNext]_vars

Next == ElectorNext \/ HashNext \/ BridgeNext \/ ExecutorNext \/ RunNext \/ CommNext
Spec == Init /\ [][Next]_vars

(***************************************************************************)
(* Properties of the static elector (SpecElector).                         *)
(***************************************************************************)
\* C1: for one session id, Coordinator returns the same peer for every listing
\* of the same set of candidates, on whichever node it is evaluated.
C1_CoordinatorDeterministic ==
    \A n, m \in Nodes :
        ( /\ electors[n].called /\ electors[m].called
          /\ electors[n].sessionID = electors[m].sessionID
          /\ Range(electors[n].peers) = Range(electors[m].peers) )
        => electors[n].out = electors[m].out

\* C1 witness: two nodes asked about the same candidates in different orders.
C1_SameSetOtherOrder ==
    /\ electors["n1"].called /\ electors["n2"].called
    /\ electors["n1"].sessionID = electors["n2"].sessionID
    /\ Range(electors["n1"].peers) = Range(electors["n2"].peers)
    /\ Cardinality(Range(electors["n1"].peers)) >= 2
    /\ electors["n1"].peers[1] # electors["n2"].peers[1]

\* C2: for a non-empty candidate list Coordinator returns, without error, a
\* candidate whose key H(peer_id || session_id) no other candidate's key is below.
C2_CoordinatorIsMinimum ==
    \A n \in Nodes :
        (electors[n].called /\ electors[n].peers # <<>>) =>
            /\ electors[n].out.err = Nil
            /\ electors[n].out.id \in Range(electors[n].peers)
            /\ \A q \in Range(electors[n].peers) :
                ~DigestLess(PeerKey(q, electors[n].sessionID),
                            PeerKey(electors[n].out.id, electors[n].sessionID))

\* C2 witness: three distinct candidates, and the one elected is not the first listed.
C2_ElectedNotFirstListed ==
    \E n \in Nodes :
        /\ electors[n].called
        /\ Cardinality(Range(electors[n].peers)) = 3
        /\ electors[n].out.id # electors[n].peers[1]

\* C3: Coordinator on an empty candidate list fails with NoCandidates.
C3_EmptyFailsNoCandidates ==
    \A n \in Nodes :
        (electors[n].called /\ electors[n].peers = <<>>) =>
            electors[n].out.err = "NoCandidates"

(***************************************************************************)
(* Properties of ProposalHash (SpecHash).                                  *)
(***************************************************************************)
\* The eight bytes of a uint64, most significant first.
BigEndian8(v) ==
    <<v[1] \div 256, v[1] % 256, v[2] \div 256, v[2] % 256,
      v[3] \div 256, v[3] % 256, v[4] \div 256, v[4] % 256>>

\* C4: ProposalHash(p) is Keccak256 of source, destination, the nonce as 8
\* big-endian bytes, the data and the 32-byte resource id, in this order, and
\* it returns no error.
C4_CanonicalHash ==
    \A s \in Slots :
        hashed[s].called =>
            LET p == hashed[s].proposal
            IN  /\ hashed[s].out.err = Nil
                /\ Len(p.ResourceId) = 32
                /\ hashed[s].out.hash =
                     Keccak256(<<p.Source>> \o <<p.Destination>> \o BigEndian8(p.DepositNonce)
                               \o p.Data \o p.ResourceId)

\* C4 witness: a hashed proposal with data and a nonce whose bytes are not a palindrome.
C4_HashedWithData ==
    \E s \in Slots :
        /\ hashed[s].called
        /\ hashed[s].proposal.Data # <<>>
        /\ hashed[s].proposal.DepositNonce = U64TwoFiftySix

\* C5: two proposals with the same hash have the same source, destination,
\* nonce, data and resource id.
C5_EqualHashSameProposal ==
    (hashed["p"].called /\ hashed["q"].called /\ hashed["p"].out.hash = hashed["q"].out.hash)
    => LET p == hashed["p"].proposal
           q == hashed["q"].proposal
       IN  /\ p.Source = q.Source
           /\ p.Destination = q.Destination
           /\ p.DepositNonce = q.DepositNonce
           /\ p.Data = q.Data
           /\ p.ResourceId = q.ResourceId

\* C5 witness: two proposal values, not the same record, hash alike.
C5_TwoProposalsOneHash ==
    /\ hashed["p"].called /\ hashed["q"].called
    /\ hashed["p"].out.hash = hashed["q"].out.hash
    /\ hashed["p"].proposal # hashed["q"].proposal

C7_RedeliveryIsNoOp ==
    executor.executedAtQuery => executor.handled \notin {"signing", "submitted"}

\* C8: when an executeProposal submission reverts, the failure is returned to
\* the caller if revertOnFail is true and is not returned if it is false.
C8_RevertFollowsRevertOnFail ==
    (lastOp.name = "ExecuteProposal" /\ lastOp.outcome = "revert") =>
        /\ lastOp.revertOnFail => lastResult.err # Nil
        /\ ~lastOp.revertOnFail => lastResult.err = Nil

\* The entry points the specification lists.
EntryPoints ==
    {"deposit", "executeProposal", "isProposalExecuted", "endKeygen", "adminSetResource",
     "adminSetGenericResource", "adminSetBurnable", "adminSetDepositNonce",
     "adminChangeFeeHandler", "adminWithdraw", "adminPauseTransfers",
     "adminUnpauseTransfers"}

\* One call of every operation of the wrapper.
OperationCalls ==
    LET o == [Priority |-> 0]
        p == CHOOSE x \in BridgeProposals : TRUE
    IN  {AdminSetGenericResource("genericHandler", "rID", "target", "depositSig", 0, "executeSig", o),
         AdminSetResource("erc20Handler", "rID", "token", o),
         SetDepositNonce(1, U64Zero, o),
         SetBurnableInput("erc20Handler", "token", o),
         Erc20Deposit("recipient", 1000000, "rID", 2, <<>>, o),
         Erc721Deposit(7, "metadata", "recipient", "rID", 2, <<>>, o),
         GenericDeposit("metadata", "rID", 2, <<>>, o),
         ExecuteProposal(p, Sign(ProposalHash(p).hash), TRUE, o),
         Pause(o), Unpause(o), EndKeygen("mpcAddress", o),
         Withdraw("erc20Handler", "token", "recipient", 5, o),
         IsProposalExecuted(p),
         GetHandlerAddressForResourceID("rID"),
         AdminChangeFeeHandler("feeHandler", o)}

\* C9 as stated: every call names one of the twelve listed entry points.
C9_OnlyListedEntryPoints ==
    lastCall.method \in EntryPoints \cup {Nil}

\* C9, amended: every call names one of the twelve listed entry points or
\* _resourceIDToHandlerAddress, and each of these thirteen is named by some
\* operation.
C9_OnlyListedOrHandlerLookup ==
    /\ lastCall.method \in EntryPoints \cup {"_resourceIDToHandlerAddress", Nil}
    /\ {c.method : c \in OperationCalls} = EntryPoints \cup {"_resourceIDToHandlerAddress"}

\* C9 witness: the handler lookup has been called.
C9_HandlerLookupCalled ==
    /\ lastOp.name = "GetHandlerAddressForResourceID"
    /\ lastCall.method = "_resourceIDToHandlerAddress"

(***************************************************************************)
(* Properties of Run (SpecRun).                                            *)
(***************************************************************************)
\* Where Run has returned: the root context is cancelled, a signal gave nil
\* and an error case gave the error the relayer reported; before that the
\* context is live.
RunExitsWell ==
    /\ run.pc = "returned" =>
        /\ run.ctx = "cancelled"
        /\ \/ run.via = "sysErr" /\ run.result = Nil
           \/ run.via = "errChn" /\ run.result = run.reported /\ run.result \in RelayerErrors
    /\ run.pc = "select" => run.ctx = "live" /\ run.result = Nil

\* C10: once started, Run ends on a signal (context cancelled, nil) or on the
\* relayer's fatal error (context cancelled, that error), and as soon as either
\* is there it does end.
C10_RunEndsOnSignalOrError ==
    /\ []RunExitsWell
    /\ (run.pc = "select" /\ SelectReady(run) # {}) ~> (run.pc = "returned")

\* C10 witness: Run returned nil on a signal while the relayer's error was waiting.
C10_SignalWinsOverPendingError ==
    /\ run.pc = "returned"
    /\ run.via = "sysErr"
    /\ run.result = Nil
    /\ run.reported # Nil
(***************************************************************************)
(* C11: admission follows the current topology.                            *)
(***************************************************************************)
\* C11: once the communication is started, the allowed peers it admits are
\* exactly the peers of the topology provider's current topology, also after
\* Refresh events that change the committee.
C11_AllowedPeersAreCurrentTopology ==
    run.comm.started => Range(run.comm.allowedPeers) = Range(run.current)

(***************************************************************************)
(* C12: the deposit payload's encoding follows opts.Priority.              *)
(***************************************************************************)
\* The payload the deposit is to carry: plain when the priority is 0, the
\* with-priority variant carrying the priority otherwise.
ExpectedDepositData(name, in) ==
    IF name = "Erc20Deposit"
    THEN IF in.opts.Priority = 0
         THEN [recipient |-> in.recipient, amount |-> in.amount, encoding |-> "erc20"]
         ELSE [recipient |-> in.recipient, amount |-> in.amount,
               encoding |-> "erc20-with-priority", priority |-> in.opts.Priority]
    ELSE IF in.opts.Priority = 0
         THEN [recipient |-> in.recipient, encoding |-> "erc721", tokenId |-> in.tokenId,
               metadata |-> in.metadata]
         ELSE [recipient |-> in.recipient, encoding |-> "erc721-with-priority",
               priority |-> in.opts.Priority, tokenId |-> in.tokenId,
               metadata |-> in.metadata]

\* C12: after Erc20Deposit or Erc721Deposit, the one transaction submitted is
\* deposit(destDomainID, resourceID, data, feeData), where data is the plain
\* encoding exactly when opts.Priority is 0 and the with-priority encoding,
\* carrying that priority, exactly when it is not.
C12_DepositEncodingFollowsPriority ==
    lastOp.name \in {"Erc20Deposit", "Erc721Deposit"} =>
        LET in == lastOp.input
            data == lastCall.args[3]
        IN  /\ lastCall.kind = "transaction"
            /\ lastCall.method = "deposit"
            /\ lastCall.opts = in.opts
            /\ lastCall.args = <<in.destDomainID, in.resourceID,
                                 ExpectedDepositData(lastOp.name, in), in.feeData>>
            /\ (in.opts.Priority = 0) <=> (data.encoding \in {"erc20", "erc721"})
            /\ (in.opts.Priority # 0) <=>
                   (/\ data.encoding \in {"erc20-with-priority", "erc721-with-priority"}
                    /\ data.priority = in.opts.Priority)

\* C12 witness: an ERC-20 deposit with priority 2 and fee data was submitted
\* and its transaction succeeded.
C12_PriorityDepositSubmitted ==
    /\ lastOp.name = "Erc20Deposit"
    /\ lastOp.input.opts.Priority = 2
    /\ lastOp.input.feeData = <<9>>
    /\ lastOp.outcome = "success"
    /\ lastCall.args[3].encoding = "erc20-with-priority"

(***************************************************************************)
(* C13: the nonce IsProposalExecuted asks the bridge about.                *)
(***************************************************************************)
\* C13: the call IsProposalExecuted makes is isProposalExecuted(source, nonce)
\* with source the proposal's source domain and nonce a non-negative integer
\* equal to the proposal's deposit nonce, for every 64-bit nonce.
C13_NonceArgumentIsDepositNonce ==
    lastOp.name = "IsProposalExecuted" =>
        /\ lastCall.method = "isProposalExecuted"
        /\ lastCall.args[1] = lastOp.proposal.Source
        /\ lastCall.args[2] = [neg |-> FALSE, abs |-> lastOp.proposal.DepositNonce]

(***************************************************************************)
(* C14: the handler address is not part of the proposal hash.              *)
(***************************************************************************)
\* The id of the signing session for a proposal hash: "signing-" and the hash.
SigningSessionID(hash) == [kind |-> "signing", discriminator |-> hash]

\* C14: two proposals that agree on source, destination, deposit nonce, data
\* and resource id have the same ProposalHash, and so the same signing session
\* id, whatever their handler addresses.
C14_HashIgnoresHandlerAddress ==
    \A s1, s2 \in Slots :
        (hashed[s1].called /\ hashed[s2].called) =>
            LET p == hashed[s1].proposal
                q == hashed[s2].proposal
            IN  (/\ p.Source = q.Source
                 /\ p.Destination = q.Destination
                 /\ p.DepositNonce = q.DepositNonce
                 /\ p.Data = q.Data
                 /\ p.ResourceId = q.ResourceId)
                => /\ hashed[s1].out.hash = hashed[s2].out.hash
                   /\ SigningSessionID(hashed[s1].out.hash) = SigningSessionID(hashed[s2].out.hash)

\* C14 witness: ProposalHash was called on an ERC-20 handler's proposal and on
\* a generic handler's proposal with the same other fields, data included.
C14_SameFieldsOtherHandler ==
    /\ hashed["p"].called /\ hashed["q"].called
    /\ hashed["p"].proposal.HandlerAddress = "erc20Handler"
    /\ hashed["q"].proposal.HandlerAddress = "genericHandler"
    /\ hashed["p"].proposal.Data # <<>>
    /\ [hashed["p"].proposal EXCEPT !.HandlerAddress = "genericHandler"] = hashed["q"].proposal

====
